---- MODULE Spec2Model ----
(***************************************************************************)
(* A model of the verification context of the verifier (vir/src/context.rs)*)
(* and of the front end that builds its functions                          *)
(* (rust_verify/src/rust_to_vir_func.rs):                                  *)
(*   - Ctx::new, the definitional-order check, Ctx::fuel, Ctx::prelude and *)
(*     the trigger log                         (SpecCtx, SpecLog)          *)
(*   - read_header / read_header_block         (SpecHeader)                *)
(*   - check_item_fn / check_foreign_item_fn   (SpecFront)                 *)
(* Option<T> is a sequence of length 0 (None) or 1 (Some).                 *)
(***************************************************************************)
EXTENDS Integers, Sequences, FiniteSets, TLC

\* ------------------------------------------------------------------ bounds
\* Largest number of functions of a krate handed to Ctx::new.
MaxFuncs == 3
\* Largest number of statements of a body block handed to read_header.
MaxStmts == 3
\* Largest number of entries appended to the trigger log.
MaxLog == 3
\* Largest number of items the front end translates into one KrateX.
MaxItems == 2

\* ------------------------------------------------------- the IR (vir::ast)
Names == {"f", "g", "h"}
Modes == {"Spec", "Proof", "Exec"}

None == << >>
Some(v) == << v >>

\* ExprX::Const / a leaf expression that references no function.
Const(c, span) ==
    [k |-> "Const", x |-> c, n |-> 0, es |-> << >>, stmts |-> << >>, span |-> span]
\* ExprX::Call(x, es)
Call(x, es, span) ==
    [k |-> "Call", x |-> x, n |-> 0, es |-> es, stmts |-> << >>, span |-> span]
\* ExprX::Fuel(x, n)
Fuel(x, n, span) ==
    [k |-> "Fuel", x |-> x, n |-> n, es |-> << >>, stmts |-> << >>, span |-> span]
\* ExprX::Block(stmts, expr): es is the optional trailing expression.
Block(stmts, e, span) ==
    [k |-> "Block", x |-> "", n |-> 0, es |-> e, stmts |-> stmts, span |-> span]
\* StmtX::Expr(expr)
StmtExpr(e, span) == [k |-> "Expr", e |-> Some(e), span |-> span]
\* Any other StmtX (a declaration).
StmtDecl(span) == [k |-> "Decl", e |-> None, span |-> span]

\* FunctionX wrapped in Spanned: params and the fuel hint play no part in the
\* operations modelled here and are left out.
Function(name, mode, ret, require, hidden, body, span) ==
    [name |-> name, mode |-> mode, ret |-> ret, require |-> require,
     hidden |-> hidden, body |-> body, span |-> span]

\* The datatypes of example/adts.rs.
Datatypes ==
    << [path |-> "Car", variants |-> << <<"Car", <<"four_doors", "passengers">> >> >>],
       [path |-> "Vehicle", variants |-> << <<"Car", <<"0">> >>, <<"Train", <<"0">> >> >>] >>

VARIABLES
    krate,            \* the krate handed to Ctx::new (functions, datatypes)
    krate_cap,        \* the number of declarations of the source being translated
    pc,               \* "build" before Ctx::new, "loop" inside it, "done" after it
    idx,              \* Ctx::new: position of the for loop in krate.functions
    functions,        \* Ctx::new: local functions
    func_map,         \* Ctx::new: local func_map
    new_ret,          \* Ctx::new: None while running, else Ok or Err
    ctx,              \* the Ctx returned by Ctx::new (None when there is none)
    commands,         \* the Commands returned by the last fuel() or prelude()
    snapshot,         \* the vector returned by the last get_chosen_triggers()
    appended,         \* the entries handed to the log's append, oldest first
    hpc,              \* read_header: "build" before the call, "done" after it
    body_in,          \* read_header: the body as it was when the call was made
    body,             \* read_header: the body: &mut Expr
    hdr_ret,          \* read_header: None before the call, else Ok(Header) or Err
    vir,              \* the front end: vir.functions
    fe_call,          \* the front end: the declaration of the last call
    fe_ret            \* the front end: what the last call returned

ctxVars == << krate, krate_cap, pc, idx, functions, func_map, new_ret, ctx, commands,
              snapshot, appended >>
hdrVars == << hpc, body_in, body, hdr_ret >>
feVars == << vir, fe_call, fe_ret >>
vars == << ctxVars, hdrVars, feVars >>

\* --------------------------------------------------------------- HashMap
EmptyMap == [x \in {} |-> x]
Insert(m, key, v) == [x \in DOMAIN m \cup {key} |-> IF x = key THEN v ELSE m[x]]

\* ------------------------------------------------------ ordering check
OkR == [k |-> "Ok"]
\* err_string(&expr.span, format!("... {} must be defined before it is called", x))
ErrR(span, x) == [k |-> "Err", span |-> span, x |-> x, msg |-> "defined before"]

\* Mutant: the test of contains_key is inverted.
check_defined_earlier_Inverted(fm, expr) ==
    IF expr.k \in {"Call", "Fuel"} /\ expr.x \in DOMAIN fm
    THEN ErrR(expr.span, expr.x) ELSE OkR
\* Mutant: only calls are checked, fuel references are let through.
check_defined_earlier_CallOnly(fm, expr) ==
    IF expr.k = "Call" /\ expr.x \notin DOMAIN fm
    THEN ErrR(expr.span, expr.x) ELSE OkR
\* Ctx::check_defined_earlier: the Ok value is the expression itself, which
\* check_no_recursion throws away.
check_defined_earlier(fm, expr) ==
    IF expr.k \in {"Call", "Fuel"} /\ expr.x \notin DOMAIN fm
    THEN ErrR(expr.span, expr.x) ELSE OkR

\* The sub-expressions map_expr_visitor descends into, left to right.
RECURSIVE StmtExprs(_)
StmtExprs(stmts) ==
    IF stmts = << >> THEN << >> ELSE Head(stmts).e \o StmtExprs(Tail(stmts))
Children(e) == IF e.k = "Block" THEN StmtExprs(e.stmts) \o e.es ELSE e.es

\* map_expr_visitor(body, &mut |expr| check_defined_earlier(func_map, expr)):
\* the children are mapped first, then the callback sees the node; the first
\* error ends the traversal.
RECURSIVE map_expr_visitor(_, _), map_exprs(_, _)
map_exprs(fm, es) ==
    IF es = << >> THEN OkR
    ELSE LET r == map_expr_visitor(fm, Head(es))
         IN IF r.k = "Err" THEN r ELSE map_exprs(fm, Tail(es))
map_expr_visitor(fm, e) ==
    LET r == map_exprs(fm, Children(e))
    IN IF r.k = "Err" THEN r ELSE check_defined_earlier(fm, e)

\* Mutant: the function is registered before its body is checked, so that a
\* function may reference itself.
check_no_recursion_SelfVisible(fm, function) ==
    IF function.body # None
    THEN map_expr_visitor(Insert(fm, function.name, function), function.body[1])
    ELSE OkR
\* Ctx::check_no_recursion
check_no_recursion(fm, function) ==
    IF function.body # None THEN map_expr_visitor(fm, function.body[1]) ELSE OkR

\* ------------------------------------------------------------ Ctx::new
\* krate.datatypes.iter().map(|d| (d.x.path, d.x.variants)).collect()
CollectDatatypes(ds) ==
    [p \in {ds[i].path : i \in DOMAIN ds} |->
        ds[CHOOSE i \in DOMAIN ds :
            ds[i].path = p /\ \A j \in DOMAIN ds : ds[j].path = p => j <= i].variants ]

\* std::cell::RefCell::new(Vec::new())
NewTriggers == << >>

\* func_map.insert(function.x.name.clone(), function.clone())
FuncMapInsert(fm, function) == Insert(fm, function.name, function)

\* One iteration of the for loop whose check succeeds.
NewIterOk ==
    /\ pc = "loop" /\ idx <= Len(krate.functions)
    /\ LET function == krate.functions[idx] IN
        /\ check_no_recursion(func_map, function).k = "Ok"
        /\ functions' = Append(functions, function)
        /\ func_map' = FuncMapInsert(func_map, function)
    /\ idx' = idx + 1
    /\ UNCHANGED << krate, krate_cap, pc, new_ret, ctx, commands,
                    snapshot, appended, hdrVars, feVars >>

\* One iteration whose check fails: `?` returns the error, the locals die.
NewIterErr ==
    /\ pc = "loop" /\ idx <= Len(krate.functions)
    /\ LET r == check_no_recursion(func_map, krate.functions[idx]) IN
        /\ r.k = "Err"
        /\ new_ret' = Some(r)
    /\ pc' = "done"
    /\ UNCHANGED << krate, krate_cap, idx, functions, func_map, ctx, commands,
                    snapshot, appended, hdrVars, feVars >>

\* The loop is over: Ok(Ctx { datatypes, functions, func_map, chosen_triggers }).
NewReturn ==
    /\ pc = "loop" /\ idx > Len(krate.functions)
    /\ ctx' = Some([datatypes |-> CollectDatatypes(krate.datatypes),
                    functions |-> functions,
                    func_map |-> func_map,
                    chosen_triggers |-> NewTriggers])
    /\ new_ret' = Some(OkR)
    /\ pc' = "done"
    /\ UNCHANGED << krate, krate_cap, idx, functions, func_map, commands, snapshot,
                    appended, hdrVars, feVars >>

\* ----------------------------------------------------------- Ctx::fuel
\* crate::def::prefix_fuel_id: the identifier behind a fixed prefix.
prefix_fuel_id(name) == << "fuel%", name >>
\* str_typ(&FUEL_ID)
FuelIdTyp == "FuelId"

DeclConst(id, typ) == [k |-> "Global", decl |-> "Const", id |-> id, typ |-> typ, ids |-> << >>]
DeclDistinct(ids) == [k |-> "Global", decl |-> "Axiom", id |-> << >>, typ |-> "Distinct", ids |-> ids]

\* Mutant: every function with a body gets a fuel constant, whatever its mode.
HasFuelId_AnyMode(function) == function.body # None
\* match (function.x.mode, function.x.body.as_ref()) { (Mode::Spec, Some(_)) => ..
HasFuelId(function) == function.mode = "Spec" /\ function.body # None

\* The for loop of fuel(): ids, in the order of self.functions.
RECURSIVE FuelIds(_)
FuelIds(fs) ==
    IF fs = << >> THEN << >>
    ELSE (IF HasFuelId(Head(fs)) THEN << prefix_fuel_id(Head(fs).name) >> ELSE << >>)
         \o FuelIds(Tail(fs))

fuel(c) ==
    LET ids == FuelIds(c.functions)
    IN [i \in 1..Len(ids) |-> DeclConst(ids[i], FuelIdTyp)] \o << DeclDistinct(ids) >>

FuelCall ==
    /\ pc = "done" /\ ctx # None
    /\ commands' = Some([op |-> "fuel", out |-> fuel(ctx[1])])
    /\ UNCHANGED << krate, krate_cap, pc, idx, functions, func_map, new_ret, ctx,
                    snapshot, appended, hdrVars, feVars >>

\* -------------------------------------------------------- Ctx::prelude
\* crate::prelude::prelude_nodes() parsed to commands: a fixed list.
PreludeCommands == << DeclConst(<< "prelude" >>, "Sort") >>
prelude(c) == PreludeCommands

PreludeCall ==
    /\ pc = "done" /\ ctx # None
    /\ commands' = Some([op |-> "prelude", out |-> prelude(ctx[1])])
    /\ UNCHANGED << krate, krate_cap, pc, idx, functions, func_map, new_ret, ctx,
                    snapshot, appended, hdrVars, feVars >>

\* ---------------------------------------------------- the trigger log
TriggerEntries ==
    { [span |-> << 1, 1 >>, triggers |-> << << "f(x)" >> >>],
      [span |-> << 1, 2 >>, triggers |-> << << "g(x)" >>, << "f(x)", "g(y)" >> >>] }

\* ctx.chosen_triggers.borrow_mut().push((span, triggers)), done by the
\* expression encoder.
PushTrigger(log, entry) == Append(log, entry)

AppendTrigger ==
    /\ pc = "done" /\ ctx # None
    /\ Len(appended) < MaxLog
    /\ \E entry \in TriggerEntries :
        /\ ctx' = Some([ctx[1] EXCEPT !.chosen_triggers = PushTrigger(@, entry)])
        /\ appended' = Append(appended, entry)
    /\ UNCHANGED << krate, krate_cap, pc, idx, functions, func_map, new_ret, commands,
                    snapshot, hdrVars, feVars >>

\* Mutant: the snapshot misses the newest entry.
get_chosen_triggers_DropLast(c) ==
    IF c.chosen_triggers = << >> THEN << >>
    ELSE SubSeq(c.chosen_triggers, 1, Len(c.chosen_triggers) - 1)
\* self.chosen_triggers.borrow().clone()
get_chosen_triggers(c) == c.chosen_triggers

GetChosenTriggers ==
    /\ pc = "done" /\ ctx # None
    /\ snapshot' = Some(get_chosen_triggers(ctx[1]))
    /\ UNCHANGED << krate, krate_cap, pc, idx, functions, func_map, new_ret, ctx,
                    commands, appended, hdrVars, feVars >>

\* The parts of the program a specification leaves alone.
HeaderIdle == hpc = "idle" /\ body_in = None /\ body = None /\ hdr_ret = None
FrontIdle == vir = << >> /\ fe_call = None /\ fe_ret = None
CtxIdle ==
    /\ krate = [functions |-> << >>, datatypes |-> << >>]
    /\ krate_cap = 0
    /\ pc = "idle"
    /\ idx = 1
    /\ functions = << >>
    /\ func_map = EmptyMap
    /\ new_ret = None
    /\ ctx = None
    /\ commands = None
    /\ snapshot = None
    /\ appended = << >>

\* ------------------------------------------------- the krates handed in
Span(decl, pos) == << decl, pos >>

\* The body of the declaration at position i of the source: every expression has
\* a location of its own. A body is absent, references nothing, calls x, has a
\* fuel reference to x in a statement of a block, or calls f with a call of x
\* among the arguments.
BodyOf(b, i) ==
    CASE b.t = "none" -> None
      [] b.t = "const" -> Some(Const("c", Span(i, 1)))
      [] b.t = "call" -> Some(Call(b.x, << >>, Span(i, 1)))
      [] b.t = "fuel" ->
            Some(Block(<< StmtDecl(Span(i, 2)),
                          StmtExpr(Fuel(b.x, 1, Span(i, 4)), Span(i, 3)) >>,
                       Some(Const("c", Span(i, 5))), Span(i, 1)))
      [] b.t = "nest" ->
            Some(Call("f", << Const("c", Span(i, 2)), Call(b.x, << >>, Span(i, 3)) >>,
                      Span(i, 1)))

\* The modes and bodies of the functions of a krate. The ordering check never
\* reads the mode and fuel() reads only the mode and whether there is a body, so
\* every kind of body comes with one mode, and the body without references with
\* a Spec and a non-Spec mode.
Shapes ==
    { [mode |-> "Spec", body |-> [t |-> "none", x |-> ""]],
      [mode |-> "Spec", body |-> [t |-> "const", x |-> ""]],
      [mode |-> "Exec", body |-> [t |-> "const", x |-> ""]],
      [mode |-> "Proof", body |-> [t |-> "nest", x |-> "g"]] }
    \cup { [mode |-> "Spec", body |-> [t |-> "call", x |-> x]] : x \in Names }
    \cup { [mode |-> "Exec", body |-> [t |-> "fuel", x |-> x]] : x \in Names }

Templates == { [name |-> nm, mode |-> sh.mode, body |-> sh.body] : nm \in Names, sh \in Shapes }

MkFunction(t, i) ==
    Function(t.name, t.mode, None, << >>, << >>, BodyOf(t.body, i), Span(i, 0))

\* The driver fills the krate one declaration at a time (vir.functions.push)
\* before it hands it to Ctx::new.
KratePush ==
    /\ pc = "build" /\ Len(krate.functions) < krate_cap
    /\ \E t \in Templates :
        krate' = [krate EXCEPT
                    !.functions = Append(@, MkFunction(t, Len(krate.functions) + 1))]
    /\ UNCHANGED << krate_cap, pc, idx, functions, func_map, new_ret, ctx, commands,
                    snapshot, appended, hdrVars, feVars >>

\* Ctx::new(&krate) is entered: let mut functions = Vec::new(); let mut func_map = ..
NewCall ==
    /\ pc = "build"
    /\ pc' = "loop"
    /\ idx' = 1
    /\ functions' = << >>
    /\ func_map' = EmptyMap
    /\ UNCHANGED << krate, krate_cap, new_ret, ctx, commands,
                    snapshot, appended, hdrVars, feVars >>

InitCtxWith(cap) ==
    /\ krate = [functions |-> << >>, datatypes |-> Datatypes]
    /\ krate_cap = cap
    /\ pc = "build"
    /\ idx = 1
    /\ functions = << >>
    /\ func_map = EmptyMap
    /\ new_ret = None
    /\ ctx = None
    /\ commands = None
    /\ snapshot = None
    /\ appended = << >>
    /\ HeaderIdle /\ FrontIdle

InitCtx == InitCtxWith(MaxFuncs)
NextCtx == KratePush \/ NewCall \/ NewIterOk \/ NewIterErr \/ NewReturn \/ FuelCall
SpecCtx == InitCtx /\ [][NextCtx]_vars

\* The trigger log, on the contexts of the krates of at most one function.
InitLog == InitCtxWith(1)
NextLog ==
    \/ KratePush \/ NewCall \/ NewIterOk \/ NewIterErr \/ NewReturn
    \/ FuelCall \/ PreludeCall \/ AppendTrigger \/ GetChosenTriggers
SpecLog == InitLog /\ [][NextLog]_vars

\* --------------------------------------------------------- read_header
\* Spanned::new(stmt.span, "only one call to requires allowed (use requires([e1,
\* ..., en]) for multiple expressions")
ErrRequires(span) == [k |-> "Err", span |-> span, msg |-> "only one call to requires allowed"]

\* ExprX::Call(x, es) if x.as_str() == "requires"
IsRequiresCall(expr) == expr.k = "Call" /\ expr.x = "requires"
\* ExprX::Fuel(x, 0)
IsZeroFuel(expr) == expr.k = "Fuel" /\ expr.n = 0

\* Mutant: a requires call with no expression does not count as a first call.
RequireIsSome_NonEmpty(require) == require # None /\ require[1] # << >>
\* require.is_some()
RequireIsSome(require) == require # None

\* Mutant: the newest hidden identifier goes to the front of the list.
HiddenPush_Front(hidden, x) == << x >> \o hidden
\* hidden.push(x.clone())
HiddenPush(hidden, x) == Append(hidden, x)

\* The for loop of read_header_block from statement i on: n statements have been
\* counted, hidden and require are what the loop has gathered so far.
RECURSIVE ScanHeader(_, _, _, _)
ScanHeader(block, i, hidden, require) ==
    IF i > Len(block)
    THEN [k |-> "Ok", n |-> i - 1, hidden |-> hidden, require |-> require]
    ELSE LET stmt == block[i] IN
         IF stmt.k = "Expr" /\ IsRequiresCall(stmt.e[1])
         THEN IF RequireIsSome(require)
              THEN ErrRequires(stmt.span)
              ELSE ScanHeader(block, i + 1, hidden, Some(stmt.e[1].es))
         ELSE IF stmt.k = "Expr" /\ IsZeroFuel(stmt.e[1])
         THEN ScanHeader(block, i + 1, HiddenPush(hidden, stmt.e[1].x), require)
         ELSE [k |-> "Ok", n |-> i - 1, hidden |-> hidden, require |-> require]

\* Mutant: every directive of the block is dropped, wherever it stands.
BlockFrom_NoDirectives(block, n) ==
    LET Keep(stmt) == ~(stmt.k = "Expr" /\ (IsRequiresCall(stmt.e[1]) \/ IsZeroFuel(stmt.e[1])))
    IN SelectSeq(block, Keep)
\* block[n..].to_vec()
BlockFrom(block, n) == SubSeq(block, n + 1, Len(block))

\* Header { hidden, require: require.unwrap_or(Rc::new(vec![])) }
Header(hidden, require) ==
    [hidden |-> hidden, require |-> IF require = None THEN << >> ELSE require[1]]

\* read_header_block(block): Ok carries the header and what *block has become.
read_header_block(block) ==
    LET r == ScanHeader(block, 1, << >>, None)
    IN IF r.k = "Err" THEN r
       ELSE [k |-> "Ok", header |-> Header(r.hidden, r.require), block |-> BlockFrom(block, r.n)]

\* read_header(body): the result, and what *body is when the call returns.
read_header(b) ==
    IF b.k = "Block"
    THEN LET r == read_header_block(b.stmts)
         IN IF r.k = "Err" THEN [ret |-> r, body |-> b]
            ELSE [ret |-> [k |-> "Ok", header |-> r.header],
                  body |-> Block(r.block, b.es, b.span)]
    ELSE LET r == read_header_block(<< >>)
         IN [ret |-> [k |-> "Ok", header |-> r.header], body |-> b]

\* The statements expr_to_vir can put at position j of a block.
StmtsAt(j) ==
    { StmtExpr(Call("requires", es, Span(j, 1)), Span(j, 0)) :
        es \in { << >>, << Const("a", Span(j, 2)) >>,
                 << Const("a", Span(j, 2)), Const("b", Span(j, 3)) >> } }
    \cup { StmtExpr(Fuel(x, 0, Span(j, 1)), Span(j, 0)) : x \in Names }
    \cup { StmtExpr(Fuel("f", 1, Span(j, 1)), Span(j, 0)),
           StmtExpr(Call("f", << Const("a", Span(j, 2)) >>, Span(j, 1)), Span(j, 0)),
           StmtDecl(Span(j, 0)) }

\* The bodies before any statement is added: blocks with and without a trailing
\* expression, and a body that is no block.
StartBodies ==
    { Block(<< >>, None, Span(0, 0)),
      Block(<< >>, Some(Const("r", Span(0, 1))), Span(0, 0)),
      Call("requires", << Const("a", Span(0, 1)) >>, Span(0, 0)) }

\* body_to_vir builds the body, one statement after the other.
BodyPush ==
    /\ hpc = "build" /\ body[1].k = "Block" /\ Len(body[1].stmts) < MaxStmts
    /\ \E stmt \in StmtsAt(Len(body[1].stmts) + 1) :
        body' = Some([body[1] EXCEPT !.stmts = Append(@, stmt)])
    /\ UNCHANGED << hpc, body_in, hdr_ret, ctxVars, feVars >>

\* let header = read_header(&mut vir_body)
ReadHeader ==
    /\ hpc = "build"
    /\ LET r == read_header(body[1]) IN
        /\ body' = Some(r.body)
        /\ hdr_ret' = Some(r.ret)
    /\ body_in' = body
    /\ hpc' = "done"
    /\ UNCHANGED << ctxVars, feVars >>

InitHeader ==
    /\ hpc = "build"
    /\ body \in { Some(b) : b \in StartBodies }
    /\ body_in = None
    /\ hdr_ret = None
    /\ CtxIdle /\ FrontIdle
NextHeader == BodyPush \/ ReadHeader
SpecHeader == InitHeader /\ [][NextHeader]_vars

\* ------------------------------------- check_item_fn, check_foreign_item_fn
\* unsupported!(msg) and unsupported_unless!(cond, msg): the declaration is
\* refused and nothing is pushed.
Unsupported(msg) == [k |-> "Err", span |-> None, msg |-> << "unsupported", msg >>]
\* ty_to_vir(tcx, ty)
ty_to_vir(ty) == << "Typ", ty >>

check_fn_decl(decl) ==
    IF decl.c_variadic THEN Unsupported("c_variadic")
    ELSE IF decl.implicit_self # "None" THEN Unsupported("implicit_self")
    ELSE [k |-> "Ok",
          v |-> IF decl.output = None THEN None ELSE Some(ty_to_vir(decl.output[1]))]

check_generics(generics) ==
    IF generics.params # 0 THEN Unsupported("generics")
    ELSE IF generics.predicates # 0 THEN Unsupported("where clause")
    ELSE OkR

\* match (mode, &ret): an Exec or Proof function has no return value.
ModeRetSupported(mode, ret) == mode = "Spec" \/ ret = None

\* Mutant: the test is made for Proof functions instead of Spec functions.
SpecWithRequires_Proof(mode, header) == mode = "Proof" /\ Len(header.require) > 0
\* mode == Mode::Spec && header.require.len() > 0
SpecWithRequires(mode, header) == mode = "Spec" /\ Len(header.require) > 0

\* check_item_fn: what it returns and what vir.functions is afterwards. d is the
\* item: its identifier, signature, generics, attributes and body.
check_item_fn(v, d) ==
    LET Fail(e) == [ret |-> e, vir |-> v]
        decl == check_fn_decl(d)
        gen == check_generics(d)
    IN  IF d.unsafety # "Normal" THEN Fail(Unsupported("unsafe"))
        ELSE IF decl.k = "Err" THEN Fail(decl)
        ELSE IF gen.k = "Err" THEN Fail(gen)
        ELSE IF ~ModeRetSupported(d.mode, decl.v)
             THEN Fail(Unsupported("non-spec function return values"))
        ELSE IF d.generator_kind # None THEN Fail(Unsupported("generator_kind"))
        ELSE IF d.body.k = "Err" THEN Fail(d.body)
        ELSE LET h == read_header(d.body.e) IN
             IF h.ret.k = "Err" THEN Fail(h.ret)
             ELSE IF SpecWithRequires(d.mode, h.ret.header)
                  THEN Fail([k |-> "Err", span |-> d.span,
                             msg |-> "spec functions cannot have requires/ensures"])
             ELSE [ret |-> OkR,
                   vir |-> Append(v, Function(d.id, d.mode, decl.v, h.ret.header.require,
                                              h.ret.header.hidden, Some(h.body), d.span))]

\* check_foreign_item_fn: what it returns and what vir.functions is afterwards.
check_foreign_item_fn(v, d) ==
    LET Fail(e) == [ret |-> e, vir |-> v]
        decl == check_fn_decl(d)
        gen == check_generics(d)
    IN  IF decl.k = "Err" THEN Fail(decl)
        ELSE IF gen.k = "Err" THEN Fail(gen)
        ELSE [ret |-> OkR,
              vir |-> Append(v, Function(d.id, d.mode, decl.v, << >>, << >>, None, d.span))]

\* What body_to_vir returns for the bodies of the items: an error of expr_to_vir,
\* or a block with no directive, with one requires call, with a hide directive
\* and an empty requires call, with two requires calls.
ItemBodies ==
    LET Req(j, es) == StmtExpr(Call("requires", es, Span(j, 1)), Span(j, 0))
        a == Const("a", Span(1, 2))
        End == Some(Const("r", Span(0, 1)))
    IN { [k |-> "Err", span |-> Span(0, 0), msg |-> "expr_to_vir"],
         [k |-> "Ok", e |-> Block(<< StmtDecl(Span(1, 0)) >>, End, Span(0, 0))],
         [k |-> "Ok", e |-> Block(<< Req(1, << a >>) >>, End, Span(0, 0))],
         [k |-> "Ok", e |-> Block(<< StmtExpr(Fuel("f", 0, Span(1, 1)), Span(1, 0)),
                                     Req(2, << >>), StmtDecl(Span(3, 0)) >>, End, Span(0, 0))],
         [k |-> "Ok", e |-> Block(<< Req(1, << a >>), Req(2, << a >>) >>, End, Span(0, 0))] }

Outputs == { None, Some("bool") }
ItemIdents == { "f", "g" }
\* The number of items translated so far.
ItemsDone == IF fe_call = None THEN 0 ELSE fe_call[1].item

\* The signatures, generics and generator kinds of the declarations: the
\* features check_item_fn and check_foreign_item_fn refuse, none or one of them
\* at a time.
Sigs ==
    LET All == [unsafety : {"Normal", "Unsafe"}, c_variadic : BOOLEAN,
                implicit_self : {"None", "ImmRef"}, params : {0, 1},
                predicates : {0, 1}, generator_kind : { None, Some("Gen") }]
        Defects(g) == (IF g.unsafety # "Normal" THEN 1 ELSE 0)
                      + (IF g.c_variadic THEN 1 ELSE 0)
                      + (IF g.implicit_self # "None" THEN 1 ELSE 0)
                      + g.params + g.predicates
                      + (IF g.generator_kind # None THEN 1 ELSE 0)
    IN { g \in All : Defects(g) <= 1 }
\* A foreign item has no unsafety of its own and no body.
ForeignSigs == { g \in Sigs : g.unsafety = "Normal" /\ g.generator_kind = None }

CheckItemFn ==
    /\ ItemsDone < MaxItems
    /\ \E id \in ItemIdents, mode \in Modes, output \in Outputs, b \in ItemBodies,
          g \in Sigs :
        LET d == [id |-> id, mode |-> mode, output |-> output, body |-> b,
                  unsafety |-> g.unsafety, c_variadic |-> g.c_variadic,
                  implicit_self |-> g.implicit_self, params |-> g.params,
                  predicates |-> g.predicates, generator_kind |-> g.generator_kind,
                  span |-> Span(ItemsDone + 1, 0)]
            r == check_item_fn(vir, d)
        IN /\ vir' = r.vir
           /\ fe_ret' = Some(r.ret)
           /\ fe_call' = Some([item |-> ItemsDone + 1, fn |-> "item", mode |-> mode,
                               output |-> output, body |-> Some(b)])
    /\ UNCHANGED << ctxVars, hdrVars >>

CheckForeignItemFn ==
    /\ ItemsDone < MaxItems
    /\ \E id \in ItemIdents, mode \in Modes, output \in Outputs, g \in ForeignSigs :
        LET d == [id |-> id, mode |-> mode, output |-> output,
                  c_variadic |-> g.c_variadic, implicit_self |-> g.implicit_self,
                  params |-> g.params, predicates |-> g.predicates,
                  span |-> Span(ItemsDone + 1, 0)]
            r == check_foreign_item_fn(vir, d)
        IN /\ vir' = r.vir
           /\ fe_ret' = Some(r.ret)
           /\ fe_call' = Some([item |-> ItemsDone + 1, fn |-> "foreign", mode |-> mode,
                               output |-> output, body |-> None])
    /\ UNCHANGED << ctxVars, hdrVars >>

InitFront == FrontIdle /\ CtxIdle /\ HeaderIdle
NextFront == CheckItemFn \/ CheckForeignItemFn
SpecFront == InitFront /\ [][NextFront]_vars

\* =================================================================== claims
\* Every Call or Fuel node of an expression, at any depth: its location and the
\* identifier it references.
RECURSIVE Refs(_)
Refs(e) ==
    (IF e.k \in {"Call", "Fuel"} THEN { [span |-> e.span, x |-> e.x] } ELSE {})
    \cup UNION { Refs(e.es[i]) : i \in DOMAIN e.es }
    \cup UNION { IF e.stmts[i].e = None THEN {} ELSE Refs(e.stmts[i].e[1]) :
                 i \in DOMAIN e.stmts }
BodyRefs(function) == IF function.body = None THEN {} ELSE Refs(function.body[1])
EarlierNames(fs, i) == { fs[j].name : j \in 1..(i - 1) }
BadRefs(fs, i) == { r \in BodyRefs(fs[i]) : r.x \notin EarlierNames(fs, i) }
WellOrdered(fs) == \A i \in DOMAIN fs : BadRefs(fs, i) = {}
NameSet(fs) == { fs[i].name : i \in DOMAIN fs }
DistinctNames(fs) == \A i, j \in DOMAIN fs : fs[i].name = fs[j].name => i = j
NewDone == pc = "done"
NewOk == pc = "done" /\ ctx # None

\* C1 (as stated): on a krate whose every reference names a strictly earlier
\* function, Ctx::new returns Ok, ctx.functions is krate.functions and the size
\* of func_map is the number of functions.
C1_Original ==
    (NewDone /\ WellOrdered(krate.functions)) =>
        /\ new_ret = Some(OkR) /\ ctx # None
        /\ ctx[1].functions = krate.functions
        /\ Cardinality(DOMAIN ctx[1].func_map) = Len(krate.functions)

\* C1 (amended): on such a krate Ctx::new returns Ok, ctx.functions is
\* krate.functions in the same order, and func_map has one entry per distinct
\* function name, so its size is the number of functions when the names are
\* pairwise distinct.
C1_Ordering_Acceptance ==
    (NewDone /\ WellOrdered(krate.functions)) =>
        /\ new_ret = Some(OkR) /\ ctx # None
        /\ ctx[1].functions = krate.functions
        /\ DOMAIN ctx[1].func_map = NameSet(krate.functions)
        /\ (DistinctNames(krate.functions) =>
                Cardinality(DOMAIN ctx[1].func_map) = Len(krate.functions))

\* A well-ordered krate of three functions of different names, the second and
\* the third of which reference an earlier one, has been accepted.
C1_Witness ==
    /\ NewOk /\ Len(krate.functions) = 3 /\ DistinctNames(krate.functions)
    /\ BodyRefs(krate.functions[2]) # {} /\ BodyRefs(krate.functions[3]) # {}
    /\ Cardinality(DOMAIN ctx[1].func_map) = 3

FirstBad(fs) == CHOOSE i \in DOMAIN fs :
    BadRefs(fs, i) # {} /\ \A j \in 1..(i - 1) : BadRefs(fs, j) = {}

\* C2: when some body references an identifier that is not the name of a strictly
\* earlier function, Ctx::new returns an error and no Ctx; the error is one of
\* the offending references (its location and its identifier) of the first
\* function that has one, and that function has a body.
C2_Ordering_Rejection ==
    (NewDone /\ ~WellOrdered(krate.functions)) =>
        /\ ctx = None
        /\ new_ret # None /\ new_ret[1].k = "Err"
        /\ LET i == FirstBad(krate.functions) IN
            /\ [span |-> new_ret[1].span, x |-> new_ret[1].x] \in BadRefs(krate.functions, i)
            /\ new_ret[1].span[1] = i
            /\ krate.functions[i].body # None

\* The second function of a krate was rejected for a reference nested in its body
\* while a bodiless first function went through.
C2_Witness ==
    /\ NewDone /\ Len(krate.functions) = 2 /\ new_ret # None /\ new_ret[1].k = "Err"
    /\ krate.functions[1].body = None
    /\ new_ret[1].span[1] = 2
    /\ new_ret[1].span # krate.functions[2].body[1].span

\* i references j: the body of the i-th function names the j-th function.
Edge(fs, i, j) == \E r \in BodyRefs(fs[i]) : r.x = fs[j].name
RECURSIVE ReachFrom(_, _, _)
ReachFrom(fs, S, n) ==
    IF n = 0 THEN S
    ELSE ReachFrom(fs, S \cup { j \in DOMAIN fs : \E i \in S : Edge(fs, i, j) }, n - 1)
\* The functions the i-th function references, directly or transitively.
Callees(fs, i) == ReachFrom(fs, { j \in DOMAIN fs : Edge(fs, i, j) }, Len(fs))
NoRecursion(fs) == \A i \in DOMAIN fs : i \notin Callees(fs, i)

\* C3 (as stated): in a context Ctx::new returned, func_map has exactly one entry
\* per function name, every reference of the i-th function is a key of func_map
\* whose value is a function at an index below i, and no function references
\* itself, directly or transitively.
C3_Original ==
    NewOk =>
        LET fs == ctx[1].functions
            fm == ctx[1].func_map
        IN /\ DOMAIN fm = NameSet(fs)
           /\ \A i \in DOMAIN fs : \A r \in BodyRefs(fs[i]) :
                /\ r.x \in DOMAIN fm
                /\ \E j \in 1..(i - 1) : fm[r.x] = fs[j]
           /\ NoRecursion(fs)

\* C3 (amended): in a context Ctx::new returned, func_map has exactly one entry
\* per function name and every reference of the i-th function is a key of
\* func_map and the name of a function at an index below i; when the names are
\* pairwise distinct, the value of that key is that function and no function
\* references itself, directly or transitively.
C3_Result_Guarantee ==
    NewOk =>
        LET fs == ctx[1].functions
            fm == ctx[1].func_map
        IN /\ DOMAIN fm = NameSet(fs)
           /\ \A i \in DOMAIN fs : \A r \in BodyRefs(fs[i]) :
                /\ r.x \in DOMAIN fm
                /\ \E j \in 1..(i - 1) : fs[j].name = r.x
                /\ DistinctNames(fs) => \E j \in 1..(i - 1) : fm[r.x] = fs[j]
           /\ DistinctNames(fs) => NoRecursion(fs)

\* A context of three functions of different names in which the third references
\* the second alone, and the first through it.
C3_Witness ==
    /\ NewOk /\ Len(ctx[1].functions) = 3 /\ DistinctNames(ctx[1].functions)
    /\ Edge(ctx[1].functions, 3, 2) /\ ~Edge(ctx[1].functions, 3, 1)
    /\ 1 \in Callees(ctx[1].functions, 3)

\* The functions fuel() gives an identity to, in context order.
IsSpecWithBody(function) == function.mode = "Spec" /\ function.body # None
FuelFunctions(c) == SelectSeq(c.functions, IsSpecWithBody)
FuelReturned == commands # None /\ commands[1].op = "fuel"
\* k constant declarations, one per spec function with a body and in their
\* order, then the one distinctness axiom over the k constants.
FuelShape(c, out) ==
    LET q == FuelFunctions(c)
        k == Len(q)
    IN /\ Len(out) = k + 1
       /\ \A j \in 1..k :
            /\ out[j].decl = "Const"
            /\ out[j].id = prefix_fuel_id(q[j].name)
            /\ out[j].typ = FuelIdTyp
       /\ out[k + 1].decl = "Axiom" /\ out[k + 1].typ = "Distinct"
       /\ out[k + 1].ids = [j \in 1..k |-> out[j].id]
PairwiseDistinctIds(out) ==
    \A a, b \in 1..(Len(out) - 1) : out[a].id = out[b].id => a = b

\* C4 (as stated): fuel() returns one constant per spec function with a body, in
\* context order, then one distinctness axiom over them, and the declared
\* identities are pairwise distinct.
C4_Original ==
    FuelReturned =>
        /\ FuelShape(ctx[1], commands[1].out)
        /\ PairwiseDistinctIds(commands[1].out)

\* C4 (amended): fuel() returns one constant per spec function with a body, in
\* context order, then one distinctness axiom over them, also when there is no
\* such function; the declared identities are pairwise distinct when the names of
\* those functions are.
C4_Fuel ==
    FuelReturned =>
        /\ FuelShape(ctx[1], commands[1].out)
        /\ DistinctNames(FuelFunctions(ctx[1])) => PairwiseDistinctIds(commands[1].out)

\* fuel() ran on a context of three functions with bodies and different names,
\* the first and the last of them of mode Spec.
C4_Witness ==
    /\ FuelReturned /\ Len(ctx[1].functions) = 3 /\ DistinctNames(ctx[1].functions)
    /\ Len(FuelFunctions(ctx[1])) = 2
    /\ ctx[1].functions[2].mode # "Spec"
    /\ \A i \in 1..3 : ctx[1].functions[i].body # None

IsPrefix(s, t) == Len(s) <= Len(t) /\ SubSeq(t, 1, Len(s)) = s

C9_Inv ==
    /\ ctx # None => ctx[1].chosen_triggers = appended
    /\ snapshot # None => IsPrefix(snapshot[1], appended)
C9_Step ==
    /\ (ctx = None /\ ctx' # None) => ctx'[1].chosen_triggers = << >>
    /\ snapshot' # snapshot => (snapshot' = Some(appended) /\ ctx' = ctx)
    /\ appended' # appended => snapshot' = snapshot
    /\ commands' # commands => ctx' = ctx

\* C9: the log is empty when Ctx::new returns; it always holds exactly the
\* entries appended so far, in append order and with duplicates;
\* get_chosen_triggers returns that sequence; an append leaves the snapshot
\* returned before as it was; get_chosen_triggers, fuel and prelude leave the
\* log as it was.
C9_Trigger_Log == [](C9_Inv) /\ [][C9_Step]_vars

\* A snapshot of two equal entries was taken, and a third entry appended since.
C9_Witness ==
    /\ snapshot # None /\ Len(snapshot[1]) = 2 /\ snapshot[1][1] = snapshot[1][2]
    /\ Len(appended) = 3

\* A statement the scan of read_header_block takes for a directive.
IsRequiresStmt(stmt) == stmt.k = "Expr" /\ stmt.e[1].k = "Call" /\ stmt.e[1].x = "requires"
IsHideStmt(stmt) == stmt.k = "Expr" /\ stmt.e[1].k = "Fuel" /\ stmt.e[1].n = 0
IsDirective(stmt) == IsRequiresStmt(stmt) \/ IsHideStmt(stmt)
StmtsOf(b) == IF b.k = "Block" THEN b.stmts ELSE << >>
\* The length of the leading run of directives.
LeadLen(stmts) == CHOOSE n \in 0..Len(stmts) :
    /\ \A i \in 1..n : IsDirective(stmts[i])
    /\ n = Len(stmts) \/ ~IsDirective(stmts[n + 1])
Lead(stmts) == SubSeq(stmts, 1, LeadLen(stmts))
LeadRequires(b) == SelectSeq(Lead(StmtsOf(b)), IsRequiresStmt)
LeadHides(b) == SelectSeq(Lead(StmtsOf(b)), IsHideStmt)
HeaderDone == hpc = "done"
HeaderOk == hpc = "done" /\ hdr_ret[1].k = "Ok"

\* C5: when the leading run of directives has at most one requires call,
\* extraction succeeds, Header.hidden lists the targets of the zero-valued fuel
\* markers of the run in their order, and Header.require is the expression
\* sequence of the requires call, or empty when there is none.
C5_Header ==
    (HeaderDone /\ Len(LeadRequires(body_in[1])) <= 1) =>
        /\ hdr_ret[1].k = "Ok"
        /\ hdr_ret[1].header.hidden =
             [i \in 1..Len(LeadHides(body_in[1])) |-> LeadHides(body_in[1])[i].e[1].x]
        /\ hdr_ret[1].header.require =
             (IF LeadRequires(body_in[1]) = << >> THEN << >>
              ELSE LeadRequires(body_in[1])[1].e[1].es)

\* Two hide directives of different targets around one requires call with two
\* expressions have been extracted.
C5_Witness ==
    /\ HeaderOk
    /\ Len(hdr_ret[1].header.hidden) = 2
    /\ hdr_ret[1].header.hidden[1] # hdr_ret[1].header.hidden[2]
    /\ Len(hdr_ret[1].header.require) = 2
    /\ IsRequiresStmt(body_in[1].stmts[2])

\* C6: when the leading run of directives has two requires calls, extraction
\* fails with the duplicate-requires error at the second of them, there is no
\* Header, and the body is as it was.
C6_Duplicate_Requires ==
    (HeaderDone /\ Len(LeadRequires(body_in[1])) >= 2) =>
        /\ hdr_ret[1] = ErrRequires(LeadRequires(body_in[1])[2].span)
        /\ body = body_in

\* Extraction failed on a block whose first requires call has no expression and
\* whose second comes after a hide directive.
C6_Witness ==
    /\ HeaderDone /\ hdr_ret[1].k = "Err"
    /\ Len(body_in[1].stmts) = 3
    /\ IsRequiresStmt(body_in[1].stmts[1]) /\ body_in[1].stmts[1].e[1].es = << >>
    /\ IsHideStmt(body_in[1].stmts[2])
    /\ hdr_ret[1].span = body_in[1].stmts[3].span

\* C7: after a successful extraction the body is the original one without the
\* leading run of directives: the statements from the first non-directive on, in
\* their order, and the same trailing expression. A directive that stands after
\* a non-directive is counted neither in hidden nor in require, and extraction
\* fails only for a second requires call in the leading run.
C7_Residual_Body ==
    /\ HeaderOk =>
        /\ body[1] =
            (IF body_in[1].k = "Block"
             THEN Block(SubSeq(body_in[1].stmts, LeadLen(body_in[1].stmts) + 1,
                               Len(body_in[1].stmts)),
                        body_in[1].es, body_in[1].span)
             ELSE body_in[1])
        /\ Len(hdr_ret[1].header.hidden) = Len(LeadHides(body_in[1]))
        /\ LeadRequires(body_in[1]) = << >> => hdr_ret[1].header.require = << >>
    /\ (HeaderDone /\ hdr_ret[1].k = "Err") => Len(LeadRequires(body_in[1])) >= 2

\* A hide directive was extracted, and the declaration and the requires call
\* after it stayed in the body.
C7_Witness ==
    /\ HeaderOk /\ body_in[1].k = "Block" /\ Len(body_in[1].stmts) = 3
    /\ IsHideStmt(body_in[1].stmts[1])
    /\ ~IsDirective(body_in[1].stmts[2])
    /\ IsRequiresStmt(body_in[1].stmts[3])
    /\ body[1].stmts = SubSeq(body_in[1].stmts, 2, 3)
    /\ hdr_ret[1].header.require = << >>

\* C8 (as stated): every function of vir.functions of mode Exec or Proof has no
\* return type, and a declaration of mode Exec or Proof with a return type is
\* refused, by check_item_fn and by check_foreign_item_fn.
C8_Mode_Ret ==
    /\ \A i \in DOMAIN vir : vir[i].mode \in {"Exec", "Proof"} => vir[i].ret = None
    /\ (fe_call # None /\ fe_call[1].mode \in {"Exec", "Proof"} /\ fe_call[1].output # None)
        => fe_ret[1].k = "Err"

C10_Inv ==
    /\ \A i \in DOMAIN vir : vir[i].mode = "Spec" => vir[i].require = << >>
    /\ (fe_call # None /\ fe_call[1].fn = "foreign" /\ fe_ret[1].k = "Ok") =>
        LET function == vir[Len(vir)]
        IN function.require = << >> /\ function.hidden = << >> /\ function.body = None
C10_Step ==
    (/\ fe_call'[1].fn = "item" /\ fe_call'[1].mode = "Spec"
     /\ fe_call'[1].body[1].k = "Ok"
     /\ LeadRequires(fe_call'[1].body[1].e) # << >>
     /\ LeadRequires(fe_call'[1].body[1].e)[1].e[1].es # << >>)
    => (fe_ret'[1].k = "Err" /\ vir' = vir)

\* C10: every function of vir.functions of mode Spec has an empty require list;
\* check_item_fn refuses a Spec function whose body has a requires call with
\* expressions and pushes nothing; a function check_foreign_item_fn pushes has
\* an empty require list, an empty hidden list and no body.
C10_Spec_Requires == [](C10_Inv) /\ [][C10_Step]_vars

\* A Spec function with a hide directive and an empty requires call was pushed,
\* then a Spec function with a requires call of one expression was refused.
C10_Witness ==
    /\ Len(vir) = 1 /\ ItemsDone = 2 /\ vir[1].mode = "Spec" /\ vir[1].hidden # << >>
    /\ fe_call # None /\ fe_call[1].fn = "item" /\ fe_call[1].mode = "Spec"
    /\ fe_ret[1].k = "Err"
    /\ fe_ret[1].msg = "spec functions cannot have requires/ensures"

====
